---- MODULE Spec2Model ----
(***************************************************************************)
(* Session linking of the Salvage Union Discord bot: the in-memory session *)
(* store (sessionStore), the OAuth callback handler, and the scoped client *)
(* factory (getSupabaseForUser).                                           *)
(*                                                                         *)
(* Time is the value of Date.now() in milliseconds.  The clock is sampled  *)
(* at the instants around each whole second (one millisecond before, at,   *)
(* and one millisecond after), which are the instants at which the         *)
(* comparison Date.now() > expiresAt can change its answer.                *)
(*                                                                         *)
(* The response object of the callback (res) is a recorder: status/send    *)
(* and redirect record the response and do not throw.  The awaited         *)
(* exchangeCodeForSession call is the environment: it resolves with an     *)
(* error, with no session, with a session, or it rejects.  SpecFaults adds *)
(* the exceptions that can be raised inside the try block: there a call of *)
(* res may raise before it has sent anything.                              *)
(***************************************************************************)
EXTENDS Integers, FiniteSets, Sequences, TLC

\* Horizon of the clock, in seconds.
MaxSec == 1

\* expires_at is in seconds, expiresAt in milliseconds (login.ts:105).
MsPerSec == 1000

\* JavaScript values that are not ordinary numbers.
Undefined == -1
NaN == -2

Identities == {"u1", "u2"}
Procs == {1, 2}
Codes == {"abc"}
OAuthErrors == {"access_denied"}
ErrorMessages == {"invalid_grant"}

\* What the provider can issue: token pair and subject.
Grants ==
  { [access_token |-> "t1", refresh_token |-> "r1", user_id |-> "u-9"],
    [access_token |-> "t2", refresh_token |-> "r2", user_id |-> "u-8"] }

ExpiresAtValues == (1..MaxSec) \cup {Undefined}

\* data.session / data.user of a successful exchange.
ProviderSessions ==
  { [access_token |-> g.access_token, refresh_token |-> g.refresh_token,
     expires_at |-> e, user_id |-> g.user_id] : g \in Grants, e \in ExpiresAtValues }

\* expires_at! * 1000 (login.ts:105): undefined * 1000 is NaN.
ToMillis(expires_at) ==
  IF expires_at = Undefined THEN NaN ELSE expires_at * MsPerSec

\* interface SessionData
SessionData ==
  { [accessToken |-> g.access_token, refreshToken |-> g.refresh_token,
     expiresAt |-> ToMillis(e), userId |-> g.user_id] : g \in Grants, e \in ExpiresAtValues }

\* null, and a present value.
Null == [present |-> FALSE]
Some(v) == [present |-> TRUE, v |-> v]

\* The instants the clock is sampled at.
TimePoints ==
  {0} \cup { s * MsPerSec + d : s \in 1..MaxSec, d \in {-1, 0, 1} }

\* The JavaScript comparison a > b on numbers: false when either is NaN.
Gt(a, b) == a # NaN /\ b # NaN /\ a > b

---------------------------------------------------------------------------
\* sessionStore: pure versions of the three exported functions.  A store is
\* a function from identity to Null or Some(SessionData).

EmptyStore == [i \in Identities |-> Null]

\* Mutant: one shared slot instead of a Map keyed by identity.
setSession_SingleSlot(store, discordUserId, session) ==
  [i \in Identities |-> Some(session)]

\* Mutant: an existing entry is kept (first write wins).
setSession_KeepFirst(store, discordUserId, session) ==
  IF store[discordUserId].present
    THEN store
    ELSE [store EXCEPT ![discordUserId] = Some(session)]

\* Mutant: the store keeps one session at a time; a write drops the others.
setSession_EvictOthers(store, discordUserId, session) ==
  [i \in Identities |-> IF i = discordUserId THEN Some(session) ELSE Null]

setSession(store, discordUserId, session) ==
  [store EXCEPT ![discordUserId] = Some(session)]

\* Mutant: the expiry is never checked.
getSession_NoExpiryCheck(store, discordUserId, dateNow) ==
  [ret |-> store[discordUserId], store |-> store]

\* Mutant: an expired entry loses its expiresAt field instead of being
\* removed from the Map.
getSession_ClearsExpiry(store, discordUserId, dateNow) ==
  LET session == store[discordUserId] IN
  IF ~session.present
    THEN [ret |-> Null, store |-> store]
    ELSE IF Gt(dateNow, session.v.expiresAt)
      THEN [ret |-> Null,
            store |-> [store EXCEPT ![discordUserId] =
                         Some([session.v EXCEPT !.expiresAt = NaN])]]
      ELSE [ret |-> session, store |-> store]

\* Mutant: an expired entry is reported absent but stays in the Map.
getSession_NoDelete(store, discordUserId, dateNow) ==
  LET session == store[discordUserId] IN
  IF ~session.present
    THEN [ret |-> Null, store |-> store]
    ELSE IF Gt(dateNow, session.v.expiresAt)
      THEN [ret |-> Null, store |-> store]
      ELSE [ret |-> session, store |-> store]

\* Mutant: every expired entry is swept on any read.
getSession_SweepAll(store, discordUserId, dateNow) ==
  LET swept == [i \in Identities |->
                  IF store[i].present /\ Gt(dateNow, store[i].v.expiresAt)
                    THEN Null ELSE store[i]] IN
  [ret |-> swept[discordUserId], store |-> swept]

getSession(store, discordUserId, dateNow) ==
  LET session == store[discordUserId] IN
  IF ~session.present
    THEN [ret |-> Null, store |-> store]
    ELSE IF Gt(dateNow, session.v.expiresAt)
      THEN [ret |-> Null, store |-> [store EXCEPT ![discordUserId] = Null]]
      ELSE [ret |-> session, store |-> store]

\* Mutant: sessions.clear() instead of sessions.delete(discordUserId).
deleteSession_Clear(store, discordUserId) ==
  [i \in Identities |-> Null]

deleteSession(store, discordUserId) ==
  [store EXCEPT ![discordUserId] = Null]

\* createClient(url, key, {global: {headers: {Authorization: `Bearer ${accessToken}`}}})
createUserClient(accessToken) ==
  [authorization |-> <<"Bearer", accessToken>>]

\* Mutant: the refresh token is sent as the bearer credential.
getSupabaseForUser_RefreshAsBearer(store, discordUserId, dateNow) ==
  LET r == getSession(store, discordUserId, dateNow) IN
  IF ~r.ret.present
    THEN [ret |-> Null, store |-> r.store, created |-> 0]
    ELSE [ret |-> Some(createUserClient(r.ret.v.refreshToken)), store |-> r.store,
          created |-> 1]

\* Mutant: an expired bundle is refreshed in place (its expiry is extended
\* by a second) and a client is returned for it.
getSupabaseForUser_Refresh(store, discordUserId, dateNow) ==
  LET session == store[discordUserId] IN
  IF ~session.present
    THEN [ret |-> Null, store |-> store, created |-> 0]
    ELSE IF Gt(dateNow, session.v.expiresAt)
      THEN [ret |-> Some(createUserClient(session.v.accessToken)),
            store |-> [store EXCEPT ![discordUserId] =
                         Some([session.v EXCEPT !.expiresAt = dateNow + MsPerSec])],
            created |-> 1]
      ELSE [ret |-> Some(createUserClient(session.v.accessToken)), store |-> store,
            created |-> 1]

\* created: the number of createClient calls the invocation makes.
getSupabaseForUser(store, discordUserId, dateNow) ==
  LET r == getSession(store, discordUserId, dateNow) IN
  IF ~r.ret.present
    THEN [ret |-> Null, store |-> r.store, created |-> 0]
    ELSE [ret |-> Some(createUserClient(r.ret.v.accessToken)), store |-> r.store,
          created |-> 1]

---------------------------------------------------------------------------
\* The callback handler, in its two synchronous segments.

Queries ==
  [code : Codes \cup {""}, state : Identities \cup {""}, error : OAuthErrors \cup {""}]

\* The state parameter is whatever string the request carries.  The values
\* with the shape of an identity are the ones the login command sends
\* (interaction.user.id).
IdentityShaped == Identities
StateValues == Identities \cup {"not-an-id"}

RawQueries ==
  [code : Codes \cup {""}, state : StateValues \cup {""}, error : OAuthErrors \cup {""}]

Response(status, text, detail) ==
  [status |-> status, text |-> text, detail |-> detail]

\* Mutant: the code is checked before the error parameter.
callbackValidate_CodeFirst(query) ==
  IF query.code = ""
    THEN Response(400, "Missing authorization code", "")
    ELSE IF query.error # ""
      THEN Response(400, "OAuth error: ", query.error)
      ELSE IF query.state = ""
        THEN Response(400, "Missing state parameter (Discord user ID)", "")
        ELSE Response(0, "exchange", "")

\* Mutant: the state is checked before the code.
callbackValidate_StateFirst(query) ==
  IF query.error # ""
    THEN Response(400, "OAuth error: ", query.error)
    ELSE IF query.state = ""
      THEN Response(400, "Missing state parameter (Discord user ID)", "")
      ELSE IF query.code = ""
        THEN Response(400, "Missing authorization code", "")
        ELSE Response(0, "exchange", "")

\* Lines 61-81: up to the await.  "exchange" means the handler goes on to
\* call exchangeCodeForSession.
callbackValidate(query) ==
  IF query.error # ""
    THEN Response(400, "OAuth error: ", query.error)
    ELSE IF query.code = ""
      THEN Response(400, "Missing authorization code", "")
      ELSE IF query.state = ""
        THEN Response(400, "Missing state parameter (Discord user ID)", "")
        ELSE Response(0, "exchange", "")

\* The expires_in (seconds) of a provider session issued at the instant
\* issuedAt: the provider sets expires_at to its clock in whole seconds plus
\* expires_in.
ExpiresIn(session, issuedAt) ==
  session.expires_at - (issuedAt \div MsPerSec)

\* What the awaited exchangeCodeForSession call can do.
ExchangeOutcomes ==
  { [kind |-> "error", message |-> m] : m \in ErrorMessages }
    \cup { [kind |-> "nosession"] }
    \cup { [kind |-> "throw"] }
    \cup { [kind |-> "session", session |-> s] : s \in ProviderSessions }

\* Mutant: expires_at is stored as it comes, in seconds.
BundleOf_Seconds(session) ==
  [accessToken |-> session.access_token,
   refreshToken |-> session.refresh_token,
   expiresAt |-> IF session.expires_at = Undefined THEN NaN ELSE session.expires_at,
   userId |-> session.user_id]

\* The bundle the handler builds from data.session and data.user.
BundleOf(session) ==
  [accessToken |-> session.access_token,
   refreshToken |-> session.refresh_token,
   expiresAt |-> ToMillis(session.expires_at),
   userId |-> session.user_id]

\* Mutant: the Discord id is stored as userId instead of data.user.id.
callbackAfterExchange_StateAsUserId(store, discordUserId, outcome) ==
  IF outcome.kind = "throw"
    THEN [store |-> store, writes |-> 0,
          res |-> Response(500, "Internal server error", "")]
    ELSE IF outcome.kind = "error"
      THEN [store |-> store, writes |-> 0,
            res |-> Response(400, "Failed to exchange code: ", outcome.message)]
      ELSE IF outcome.kind = "nosession"
        THEN [store |-> store, writes |-> 0,
              res |-> Response(400, "No session returned from authentication", "")]
        ELSE [store |-> setSession(store, discordUserId,
                          [BundleOf(outcome.session) EXCEPT !.userId = discordUserId]),
              writes |-> 1,
              res |-> Response(302, "https://salvageunion.io/auth/success", "")]

\* Mutant: a failed exchange drops the identity's existing session.
callbackAfterExchange_DeleteOnFailure(store, discordUserId, outcome) ==
  IF outcome.kind = "throw"
    THEN [store |-> store, writes |-> 0,
          res |-> Response(500, "Internal server error", "")]
    ELSE IF outcome.kind = "error"
      THEN [store |-> deleteSession(store, discordUserId), writes |-> 0,
            res |-> Response(400, "Failed to exchange code: ", outcome.message)]
      ELSE IF outcome.kind = "nosession"
        THEN [store |-> store, writes |-> 0,
              res |-> Response(400, "No session returned from authentication", "")]
        ELSE [store |-> setSession(store, discordUserId, BundleOf(outcome.session)),
              writes |-> 1,
              res |-> Response(302, "https://salvageunion.io/auth/success", "")]

\* Mutant: a returned exchange error is thrown to the catch block.
callbackAfterExchange_ErrorAs500(store, discordUserId, outcome) ==
  IF outcome.kind \in {"throw", "error"}
    THEN [store |-> store, writes |-> 0,
          res |-> Response(500, "Internal server error", "")]
    ELSE IF outcome.kind = "nosession"
      THEN [store |-> store, writes |-> 0,
            res |-> Response(400, "No session returned from authentication", "")]
      ELSE [store |-> setSession(store, discordUserId, BundleOf(outcome.session)),
            writes |-> 1,
            res |-> Response(302, "https://salvageunion.io/auth/success", "")]

\* Mutant: data.session is not checked, so reading data.session.access_token
\* of a null session throws into the catch block.
callbackAfterExchange_NoSessionCheck(store, discordUserId, outcome) ==
  IF outcome.kind \in {"throw", "nosession"}
    THEN [store |-> store, writes |-> 0,
          res |-> Response(500, "Internal server error", "")]
    ELSE IF outcome.kind = "error"
      THEN [store |-> store, writes |-> 0,
            res |-> Response(400, "Failed to exchange code: ", outcome.message)]
      ELSE [store |-> setSession(store, discordUserId, BundleOf(outcome.session)),
            writes |-> 1,
            res |-> Response(302, "https://salvageunion.io/auth/success", "")]

\* Mutant: a failed exchange is taken for a repeated login when the identity
\* already has a session, and answered with the success redirect.
callbackAfterExchange_ErrorOkIfLinked(store, discordUserId, outcome) ==
  IF outcome.kind = "throw"
    THEN [store |-> store, writes |-> 0,
          res |-> Response(500, "Internal server error", "")]
    ELSE IF outcome.kind = "error"
      THEN [store |-> store, writes |-> 0,
            res |-> IF store[discordUserId].present
                      THEN Response(302, "https://salvageunion.io/auth/success", "")
                      ELSE Response(400, "Failed to exchange code: ", outcome.message)]
      ELSE IF outcome.kind = "nosession"
        THEN [store |-> store, writes |-> 0,
              res |-> Response(400, "No session returned from authentication", "")]
        ELSE [store |-> setSession(store, discordUserId, BundleOf(outcome.session)),
              writes |-> 1,
              res |-> Response(302, "https://salvageunion.io/auth/success", "")]

\* Mutant: the new tokens are merged into an existing entry, whose refresh
\* token and user id are kept.
callbackAfterExchange_MergeWrite(store, discordUserId, outcome) ==
  IF outcome.kind = "throw"
    THEN [store |-> store, writes |-> 0,
          res |-> Response(500, "Internal server error", "")]
    ELSE IF outcome.kind = "error"
      THEN [store |-> store, writes |-> 0,
            res |-> Response(400, "Failed to exchange code: ", outcome.message)]
      ELSE IF outcome.kind = "nosession"
        THEN [store |-> store, writes |-> 0,
              res |-> Response(400, "No session returned from authentication", "")]
        ELSE [store |-> setSession(store, discordUserId,
                          IF store[discordUserId].present
                            THEN [store[discordUserId].v EXCEPT
                                    !.accessToken = outcome.session.access_token,
                                    !.expiresAt = ToMillis(outcome.session.expires_at)]
                            ELSE BundleOf(outcome.session)),
              writes |-> 1,
              res |-> Response(302, "https://salvageunion.io/auth/success", "")]

\* Mutant: the success redirect hands the access token on in its URL.
callbackAfterExchange_TokenInRedirect(store, discordUserId, outcome) ==
  IF outcome.kind = "throw"
    THEN [store |-> store, writes |-> 0,
          res |-> Response(500, "Internal server error", "")]
    ELSE IF outcome.kind = "error"
      THEN [store |-> store, writes |-> 0,
            res |-> Response(400, "Failed to exchange code: ", outcome.message)]
      ELSE IF outcome.kind = "nosession"
        THEN [store |-> store, writes |-> 0,
              res |-> Response(400, "No session returned from authentication", "")]
        ELSE [store |-> setSession(store, discordUserId, BundleOf(outcome.session)),
              writes |-> 1,
              res |-> Response(302, "https://salvageunion.io/auth/success",
                               outcome.session.access_token)]

\* Lines 89-114: from the resolution of the await to the end.
callbackAfterExchange(store, discordUserId, outcome) ==
  IF outcome.kind = "throw"
    THEN [store |-> store, writes |-> 0,
          res |-> Response(500, "Internal server error", "")]
    ELSE IF outcome.kind = "error"
      THEN [store |-> store, writes |-> 0,
            res |-> Response(400, "Failed to exchange code: ", outcome.message)]
      ELSE IF outcome.kind = "nosession"
        THEN [store |-> store, writes |-> 0,
              res |-> Response(400, "No session returned from authentication", "")]
        ELSE [store |-> setSession(store, discordUserId, BundleOf(outcome.session)),
              writes |-> 1,
              res |-> Response(302, "https://salvageunion.io/auth/success", "")]

\* The try block with the exceptions that can be raised in it besides a
\* rejected exchange: "bundle" is an exception while the argument of
\* setSession is built (data.user is missing), "respond" an exception raised
\* by the response call of the branch taken (the 400 of a failed exchange, or
\* the redirect).  A response call that raises has sent nothing.  sent is the
\* sequence of responses sent, raised tells that the catch block was entered.
Faults == {"none", "bundle", "respond"}

tryBlock(store, discordUserId, outcome, fault) ==
  IF outcome.kind = "throw"
    THEN [store |-> store, writes |-> 0, sent |-> <<>>, raised |-> TRUE]
    ELSE IF outcome.kind = "error"
      THEN IF fault = "respond"
        THEN [store |-> store, writes |-> 0, sent |-> <<>>, raised |-> TRUE]
        ELSE [store |-> store, writes |-> 0,
              sent |-> <<Response(400, "Failed to exchange code: ", outcome.message)>>,
              raised |-> FALSE]
      ELSE IF outcome.kind = "nosession"
        THEN IF fault = "respond"
          THEN [store |-> store, writes |-> 0, sent |-> <<>>, raised |-> TRUE]
          ELSE [store |-> store, writes |-> 0,
                sent |-> <<Response(400, "No session returned from authentication", "")>>,
                raised |-> FALSE]
        ELSE IF fault = "bundle"
          THEN [store |-> store, writes |-> 0, sent |-> <<>>, raised |-> TRUE]
          ELSE IF fault = "respond"
            THEN [store |-> setSession(store, discordUserId, BundleOf(outcome.session)),
                  writes |-> 1, sent |-> <<>>, raised |-> TRUE]
            ELSE [store |-> setSession(store, discordUserId, BundleOf(outcome.session)),
                  writes |-> 1,
                  sent |-> <<Response(302, "https://salvageunion.io/auth/success", "")>>,
                  raised |-> FALSE]

\* Mutant: the try block ends after the exchange, so that only a rejected
\* exchange reaches the catch block.
callbackTry_CatchExchangeOnly(store, discordUserId, outcome, fault) ==
  LET t == tryBlock(store, discordUserId, outcome, fault) IN
  IF t.raised /\ outcome.kind = "throw"
    THEN [store |-> t.store, writes |-> t.writes, raised |-> TRUE, thrown |-> FALSE,
          sent |-> Append(t.sent, Response(500, "Internal server error", ""))]
    ELSE [store |-> t.store, writes |-> t.writes, raised |-> t.raised,
          thrown |-> t.raised, sent |-> t.sent]

\* Mutant: the return after the response to a failed exchange is missing:
\* the handler goes on to the session check and answers a second time.
callbackTry_NoReturnAfterError(store, discordUserId, outcome, fault) ==
  LET t == tryBlock(store, discordUserId, outcome, fault) IN
  IF t.raised
    THEN [store |-> t.store, writes |-> t.writes, raised |-> TRUE, thrown |-> FALSE,
          sent |-> Append(t.sent, Response(500, "Internal server error", ""))]
    ELSE [store |-> t.store, writes |-> t.writes, raised |-> FALSE, thrown |-> FALSE,
          sent |-> IF outcome.kind = "error"
                     THEN Append(t.sent,
                            Response(400, "No session returned from authentication", ""))
                     ELSE t.sent]

\* Lines 83-114: the try block and its catch block.  thrown tells that an
\* exception leaves the handler.
callbackTry(store, discordUserId, outcome, fault) ==
  LET t == tryBlock(store, discordUserId, outcome, fault) IN
  IF t.raised
    THEN [store |-> t.store, writes |-> t.writes, raised |-> TRUE, thrown |-> FALSE,
          sent |-> Append(t.sent, Response(500, "Internal server error", ""))]
    ELSE [store |-> t.store, writes |-> t.writes, raised |-> FALSE, thrown |-> FALSE,
          sent |-> t.sent]

---------------------------------------------------------------------------
\* The login command.

\* process.env: the names that are set.
EnvNames == {"SUPABASE_URL", "SUPABASE_ANON_KEY", "BOT_CALLBACK_URL"}
FullEnv == EnvNames

\* Module initialisation of core/supabase: it throws when SUPABASE_URL or
\* SUPABASE_ANON_KEY is not set, and checks nothing else.
moduleInit(environment) ==
  IF "SUPABASE_URL" \notin environment THEN "fatal"
  ELSE IF "SUPABASE_ANON_KEY" \notin environment THEN "fatal"
  ELSE "running"

\* What the awaited signInWithOAuth call can do.
SignInOutcomes ==
  { [kind |-> "url"], [kind |-> "error"], [kind |-> "nourl"], [kind |-> "throw"] }

\* The login command: the request it sends, the reply it makes, and whether
\* an exception leaves the handler.  There is no try/catch in the handler.
loginCommand(userId, environment, outcome) ==
  LET request == [provider |-> "discord",
                  redirectTo |-> IF "BOT_CALLBACK_URL" \in environment
                                   THEN "BOT_CALLBACK_URL" ELSE "undefined",
                  state |-> userId] IN
  IF outcome.kind = "throw"
    THEN [request |-> request, reply |-> "none", thrown |-> TRUE]
    ELSE IF outcome.kind \in {"error", "nourl"}
      THEN [request |-> request, reply |-> "Login Error", thrown |-> FALSE]
      ELSE [request |-> request, reply |-> "Link Your Account", thrown |-> FALSE]

---------------------------------------------------------------------------
\* The list commands: pilots, mechs, crawlers, games.

\* Most records a fetch returns.
MaxRecords == 11

\* Discord's limit of embeds per message: slice(0, 10).
EmbedLimit == 10

\* The error codes the defer guard lets pass.
UnknownInteraction == 10062
AlreadyAcknowledged == 40060

Kinds == {"pilots", "mechs", "crawlers", "games"}

Min(a, b) == IF a < b THEN a ELSE b

\* Array.prototype.slice(0, n)
slice(s, n) == SubSeq(s, 1, Min(n, Len(s)))

\* A description is a sequence of pieces of text; <<>> is no description.
\* A piece is a text or the note of a cut list.
Piece(text) == [text |-> text, of |-> 0, what |-> ""]
Note(kind, n) == [text |-> "*Showing 10 of ", of |-> n, what |-> kind]

\* The rows a fetch can return, at most MaxRecords of them.  A pilot may
\* have a motto (the first one, and the ones around the cut); the ids are
\* the positions in the fetch order.
MottoPositions == {1, EmbedLimit, EmbedLimit + 1}

RowsOf(kind) ==
  UNION { { [k \in 1..n |-> [id |-> k, motto |-> IF k \in M THEN "motto" ELSE ""]] :
              M \in IF kind = "pilots" THEN SUBSET (MottoPositions \cap (1..n))
                                        ELSE {{}} } :
          n \in 0..MaxRecords }

\* The embed of one record.  Only the pilot embed gets a description (the
\* motto).
embedOf(kind, record) ==
  [url |-> <<kind, record.id>>,
   description |-> IF kind = "pilots" /\ record.motto # ""
                     THEN <<Piece(record.motto)>> ELSE <<>>]

\* pilots.ts:129-137 and part_004:196-204: the note is added to what the
\* last embed has as description.
appendNote(embeds, kind, n) ==
  LET currentDescription == embeds[Len(embeds)].description IN
  [embeds EXCEPT ![Len(embeds)].description =
     IF currentDescription # <<>>
       THEN currentDescription \o <<Piece("\n\n"), Note(kind, n)>>
       ELSE <<Note(kind, n)>>]

\* roll.ts:223-228 and pilots.ts:292-297: the note becomes the description.
setNote(embeds, kind, n) ==
  [embeds EXCEPT ![Len(embeds)].description = <<Note(kind, n)>>]

\* Mutant: the note is added from ten records on.
listEmbeds_NoteAtTen(kind, records) ==
  LET embeds == [k \in 1..Len(slice(records, EmbedLimit)) |->
                   embedOf(kind, slice(records, EmbedLimit)[k])] IN
  IF Len(records) >= EmbedLimit
    THEN IF kind \in {"pilots", "mechs"}
      THEN appendNote(embeds, kind, Len(records))
      ELSE setNote(embeds, kind, Len(records))
    ELSE embeds

\* The embeds of a reply for a fetch that returned at least one record.
listEmbeds(kind, records) ==
  LET embeds == [k \in 1..Len(slice(records, EmbedLimit)) |->
                   embedOf(kind, slice(records, EmbedLimit)[k])] IN
  IF Len(records) > EmbedLimit
    THEN IF kind \in {"pilots", "mechs"}
      THEN appendNote(embeds, kind, Len(records))
      ELSE setNote(embeds, kind, Len(records))
    ELSE embeds

\* What the awaited calls of a list command can do.  getUserByDiscordId
\* catches everything and returns null; the fetch throws the error of its
\* query.
DeferOutcomes ==
  { [kind |-> "ok", code |-> 0] }
    \cup { [kind |-> "error", code |-> c] :
             c \in {UnknownInteraction, AlreadyAcknowledged, 50013} }
UserOutcomes == {"found", "none"}
FetchOutcomes(kind) ==
  { [kind |-> "rows", rows |-> r] : r \in RowsOf(kind) }
    \cup { [kind |-> "error", rows |-> <<>>] }

Content(text) == [content |-> text, embeds |-> <<>>]
Embeds(embeds) == [content |-> "", embeds |-> embeds]

\* Mutant: the defer guard swallows every error of deferReply and the
\* handler goes on.
listCommand_DeferIgnored(kind, defer, user, fetch) ==
  LET edits ==
        IF user = "none" THEN <<Content("No account found")>>
        ELSE IF fetch.kind = "error" THEN <<Content("Error")>>
        ELSE IF Len(fetch.rows) = 0 THEN <<Content("You don't have any yet")>>
        ELSE <<Embeds(listEmbeds(kind, fetch.rows))>> IN
  IF defer.kind = "error" /\ defer.code \in {UnknownInteraction, AlreadyAcknowledged}
    THEN [deferred |-> FALSE, edits |-> <<>>, thrown |-> FALSE]
    ELSE [deferred |-> defer.kind = "ok", edits |-> edits, thrown |-> FALSE]

\* A list command: whether deferReply succeeded, the editReply calls made
\* in order, and whether an exception leaves the handler.
listCommand(kind, defer, user, fetch) ==
  IF defer.kind = "error"
    THEN IF defer.code = UnknownInteraction \/ defer.code = AlreadyAcknowledged
      THEN [deferred |-> FALSE, edits |-> <<>>, thrown |-> FALSE]
      ELSE [deferred |-> FALSE, edits |-> <<>>, thrown |-> TRUE]
    ELSE IF user = "none"
      THEN [deferred |-> TRUE, edits |-> <<Content("No account found")>>,
            thrown |-> FALSE]
      ELSE IF fetch.kind = "error"
        THEN [deferred |-> TRUE, edits |-> <<Content("Error")>>, thrown |-> FALSE]
        ELSE IF Len(fetch.rows) = 0
          THEN [deferred |-> TRUE, edits |-> <<Content("You don't have any yet")>>,
                thrown |-> FALSE]
          ELSE [deferred |-> TRUE,
                edits |-> <<Embeds(listEmbeds(kind, fetch.rows))>>,
                thrown |-> FALSE]

---------------------------------------------------------------------------
\* formatListWithCounts of the mechs command.

\* Longest list of systems or modules.
MaxItems == 4

ItemNames == {"Claw", "Drill", "Saw"}
ItemIds == {"i1", "i2"}
SchemaTypes == {"systems", "modules"}

Items == [name : ItemNames, id : ItemIds]
ItemLists == UNION { [1..n -> Items] : n \in 0..MaxItems }

\* counts.get(name) after the first forEach.
countOf(items, name) ==
  Cardinality({ k \in 1..Len(items) : items[k].name = name })

\* One entry of formatted: the link, and the N of the suffix " xN" (0 when
\* there is no suffix).
Line(item, schemaType, count) ==
  [name |-> item.name, url |-> <<schemaType, item.id>>,
   times |-> IF count > 1 THEN count ELSE 0]

\* Mutant: no seen set, every item gets its line.
RECURSIVE formatFrom_NoSeen(_, _, _, _)
formatFrom_NoSeen(items, k, seen, schemaType) ==
  IF k > Len(items) THEN <<>>
  ELSE <<Line(items[k], schemaType, countOf(items, items[k].name))>>
         \o formatFrom_NoSeen(items, k + 1, seen, schemaType)

\* The second forEach, from item k on.
RECURSIVE formatFrom(_, _, _, _)
formatFrom(items, k, seen, schemaType) ==
  IF k > Len(items) THEN <<>>
  ELSE IF items[k].name \in seen
    THEN formatFrom(items, k + 1, seen, schemaType)
    ELSE <<Line(items[k], schemaType, countOf(items, items[k].name))>>
           \o formatFrom(items, k + 1, seen \cup {items[k].name}, schemaType)

formatListWithCounts(items, schemaType) ==
  formatFrom(items, 1, {}, schemaType)

---------------------------------------------------------------------------
\* getUserGames, in its two versions, over one snapshot of the database.

GameIds == {"g1", "g2", "g3"}

\* The order in which the games table returns its rows.
TableOrder == <<"g1", "g2", "g3">>

\* The name column; the game g2 has none.
NameOf(g) == IF g = "g2" THEN "" ELSE g

\* The sequences that list every element of S once.
Perms(S) ==
  { p \in [1..Cardinality(S) -> S] :
      \A a, b \in 1..Cardinality(S) : a # b => p[a] # p[b] }

\* A snapshot: the games that exist, the ones the user created, and the
\* rows of game_members of the user, in the order the table returns them (a
\* row may name a game that is not visible any more).
Databases ==
  UNION { { [games |-> t, created |-> c, memberRows |-> m] :
              c \in SUBSET t, m \in UNION { Perms(x) : x \in SUBSET GameIds } } :
          t \in SUBSET GameIds }

\* The query at which the backend reports an error, if any.
FailPoints == {"none", "created", "member", "games", "counts"}

\* .from("games").select("id, name").eq("created_by", userId)
selectCreated(db) ==
  LET rows == SelectSeq(TableOrder, LAMBDA g : g \in db.created) IN
  [k \in 1..Len(rows) |-> [id |-> rows[k], name |-> NameOf(rows[k])]]

\* .from("game_members").select("game_id, games(id, name)").eq("user_id", userId)
selectMemberGames(db) ==
  [k \in 1..Len(db.memberRows) |->
     [game_id |-> db.memberRows[k],
      games |-> IF db.memberRows[k] \in db.games
                  THEN Some([id |-> db.memberRows[k], name |-> NameOf(db.memberRows[k])])
                  ELSE Null]]

\* .from("games").select("id, name").in("id", gameIds)
selectGamesIn(db, gameIds) ==
  LET rows == SelectSeq(TableOrder, LAMBDA g : g \in db.games /\ g \in gameIds) IN
  [k \in 1..Len(rows) |-> [id |-> rows[k], name |-> NameOf(rows[k])]]

\* g.name || "Unnamed Game"
nameOr(name) == IF name = "" THEN "Unnamed Game" ELSE name

\* Map.set on a Map kept as the sequence of its entries in insertion order:
\* a key that is present keeps its place and gets the new value.
mapSet(entries, game) ==
  IF \E k \in 1..Len(entries) : entries[k].id = game.id
    THEN [k \in 1..Len(entries) |->
            IF entries[k].id = game.id THEN game ELSE entries[k]]
    ELSE Append(entries, game)

RECURSIVE setAll(_, _)
setAll(entries, games) ==
  IF games = <<>> THEN entries
  ELSE setAll(mapSet(entries, [id |-> Head(games).id, name |-> nameOr(Head(games).name)]),
              Tail(games))

\* The joined games of the member rows that have one.
joined(memberGames) ==
  LET with == SelectSeq(memberGames, LAMBDA m : m.games.present) IN
  [k \in 1..Len(with) |-> with[k].games.v]

Thrown(error) == [thrown |-> TRUE, error |-> error, games |-> <<>>]
Returned(games) == [thrown |-> FALSE, error |-> "", games |-> games]

\* Mutant: the two lists are concatenated.
getUserGames_first_Concat(db, failAt) ==
  IF failAt = "created" THEN Thrown("createdError")
  ELSE IF failAt = "member" THEN Thrown("memberError")
  ELSE Returned(setAll(<<>>, selectCreated(db))
                  \o setAll(<<>>, joined(selectMemberGames(db))))

\* part_006:116-154
getUserGames_first(db, failAt) ==
  IF failAt = "created" THEN Thrown("createdError")
  ELSE IF failAt = "member" THEN Thrown("memberError")
  ELSE Returned(setAll(setAll(<<>>, selectCreated(db)),
                       joined(selectMemberGames(db))))

\* part_006:265-341.  The member count of a game is counted over the rows of
\* game_members, which in the snapshot are the rows of the user.
getUserGames(db, failAt) ==
  LET memberIds == { db.memberRows[k] : k \in 1..Len(db.memberRows) }
      gameIdSet == db.created \cup memberIds
      allGames == selectGamesIn(db, gameIdSet)
      counted == IF failAt = "counts" THEN {} ELSE memberIds IN
  IF failAt = "created" THEN Thrown("createdError")
  ELSE IF failAt = "member" THEN Thrown("memberError")
  ELSE IF gameIdSet = {} THEN Returned(<<>>)
  ELSE IF failAt = "games" THEN Thrown("gamesError")
  ELSE Returned([k \in 1..Len(allGames) |->
                   [id |-> allGames[k].id, name |-> nameOr(allGames[k].name),
                    member_count |-> IF allGames[k].id \in counted THEN 1 ELSE 0]])

---------------------------------------------------------------------------
VARIABLES
  sessions,   \* the Map of sessionStore
  now,        \* Date.now()
  inflight,   \* per callback invocation: Null, or the query it awaits the exchange for
  last,       \* the call or handler segment that ran last, with what it returned
  env,        \* process.env
  phase,      \* "boot", then "fatal" or "running"
  linked,     \* history: identities setSession was ever called for
  putb,       \* history: the bundle last given to setSession, until deleteSession
  evicted,    \* history: getSession found the bundle expired, no setSession since
  raced,      \* history, per suspended invocation: the bundle another callback
              \* wrote for the same state since it suspended
  solo,       \* history, per identity: the store of a run in which only the
              \* callbacks for that identity take place
  valid,      \* authorization server: the codes issued and not yet exchanged
  codeWrites  \* history: store writes made for each code since it was issued

vars == <<sessions, now, inflight, last, env, phase, linked, putb, evicted,
          raced, solo, valid, codeWrites>>

config == <<env, phase>>
server == <<valid, codeWrites>>

InitRest ==
  /\ phase = "boot"
  /\ sessions = EmptyStore
  /\ now = 0
  /\ inflight = [p \in Procs |-> Null]
  /\ last = [op |-> "init"]
  /\ linked = {}
  /\ putb = [i \in Identities |-> Null]
  /\ evicted = [i \in Identities |-> FALSE]
  /\ raced = [p \in Procs |-> Null]
  /\ solo = [i \in Identities |-> EmptyStore]
  /\ valid = {}
  /\ codeWrites = [c \in Codes |-> 0]

\* The process starts with its configuration complete.
Init ==
  /\ env = FullEnv
  /\ InitRest

\* The process starts with any configuration.
InitAnyEnv ==
  /\ env \in SUBSET EnvNames
  /\ InitRest

\* The same start, with room in the Map for every key a request can name.
InitAnyState ==
  /\ env = FullEnv
  /\ phase = "boot"
  /\ sessions = [k \in StateValues |-> Null]
  /\ now = 0
  /\ inflight = [p \in Procs |-> Null]
  /\ last = [op |-> "init"]
  /\ linked = {}
  /\ putb = [k \in StateValues |-> Null]
  /\ evicted = [k \in StateValues |-> FALSE]
  /\ raced = [p \in Procs |-> Null]
  /\ solo = [i \in Identities |-> EmptyStore]
  /\ valid = {}
  /\ codeWrites = [c \in Codes |-> 0]

\* The commands and helpers that keep no state: the process is up and an
\* invocation has arrived with the answers its awaited calls will get.
ListRequests ==
  UNION { { [op |-> "request", command |-> "list", kind |-> k, defer |-> d,
             user |-> u, fetch |-> f] :
              d \in DeferOutcomes, u \in UserOutcomes, f \in FetchOutcomes(k) } :
          k \in Kinds }

GamesRequests ==
  { [op |-> "request", command |-> "getUserGames", version |-> v,
     db |-> d, failAt |-> f] :
      v \in {1, 2}, d \in Databases, f \in FailPoints }

FormatRequests ==
  { [op |-> "request", command |-> "formatListWithCounts",
     items |-> i, schemaType |-> t] :
      i \in ItemLists, t \in SchemaTypes }

InitCommands(requests) ==
  /\ env = FullEnv
  /\ phase = "running"
  /\ sessions = EmptyStore
  /\ now = 0
  /\ inflight = [p \in Procs |-> Null]
  /\ last \in requests
  /\ linked = {}
  /\ putb = [i \in Identities |-> Null]
  /\ evicted = [i \in Identities |-> FALSE]
  /\ raced = [p \in Procs |-> Null]
  /\ solo = [i \in Identities |-> EmptyStore]
  /\ valid = {}
  /\ codeWrites = [c \in Codes |-> 0]

\* The modules are loaded.
Startup ==
  /\ phase = "boot"
  /\ phase' = moduleInit(env)
  /\ last' = [op |-> "startup"]
  /\ UNCHANGED <<sessions, now, inflight, env, linked, putb, evicted, raced, solo, server>>

\* Time passes.
Tick ==
  /\ phase = "running"
  /\ \E t \in TimePoints : t > now /\ now' = t
  /\ last' = [op |-> "tick"]
  /\ UNCHANGED <<sessions, inflight, config, linked, putb, evicted, raced, solo, server>>

\* History kept for a setSession(i, b) call.
NoteSet(i, b) ==
  /\ linked' = linked \cup {i}
  /\ putb' = [putb EXCEPT ![i] = Some(b)]
  /\ evicted' = [evicted EXCEPT ![i] = FALSE]

\* History kept for a getSession(i) call.
NoteGet(i) ==
  /\ evicted' = [evicted EXCEPT ![i] =
                   @ \/ (sessions[i].present /\ Gt(now, sessions[i].v.expiresAt))]
  /\ UNCHANGED <<linked, putb>>

SetSession(i, b) ==
  /\ phase = "running"
  /\ sessions' = setSession(sessions, i, b)
  /\ last' = [op |-> "setSession", id |-> i, arg |-> b, had |-> sessions[i]]
  /\ NoteSet(i, b)
  /\ UNCHANGED <<now, inflight, config, raced, solo, server>>

GetSession(i) ==
  LET r == getSession(sessions, i, now) IN
  /\ phase = "running"
  /\ sessions' = r.store
  /\ last' = [op |-> "getSession", id |-> i, ret |-> r.ret, had |-> sessions[i],
              wasEvicted |-> evicted[i]]
  /\ NoteGet(i)
  /\ UNCHANGED <<now, inflight, config, raced, solo, server>>

DeleteSession(i) ==
  /\ phase = "running"
  /\ sessions' = deleteSession(sessions, i)
  /\ last' = [op |-> "deleteSession", id |-> i, had |-> sessions[i]]
  /\ putb' = [putb EXCEPT ![i] = Null]
  /\ UNCHANGED <<now, inflight, config, linked, evicted, raced, solo, server>>

GetSupabaseForUser(i) ==
  LET r == getSupabaseForUser(sessions, i, now) IN
  /\ phase = "running"
  /\ sessions' = r.store
  /\ last' = [op |-> "getSupabaseForUser", id |-> i, ret |-> r.ret, had |-> sessions[i],
              created |-> r.created]
  /\ NoteGet(i)
  /\ UNCHANGED <<now, inflight, config, raced, solo, server>>

\* The login command is invoked by user i; its signInWithOAuth call settles
\* and the handler runs to its end.  It reads and writes no shared state.
LoginCommand(i, o) ==
  LET r == loginCommand(i, env, o) IN
  /\ phase = "running"
  /\ last' = [op |-> "login", id |-> i, outcome |-> o, request |-> r.request,
              reply |-> r.reply, thrown |-> r.thrown]
  /\ UNCHANGED <<sessions, now, inflight, config, linked, putb, evicted, raced, solo, server>>

\* The callback is invoked with a query: it answers at once, or calls the
\* exchange and suspends.
CallbackReceive(p, q) ==
  LET res == callbackValidate(q) IN
  /\ phase = "running"
  /\ ~inflight[p].present
  /\ inflight' = [inflight EXCEPT ![p] = IF res.status = 0 THEN Some(q) ELSE Null]
  /\ last' = [op |-> "callback", proc |-> p, query |-> q, res |-> res,
              exchanged |-> (res.status = 0), writes |-> 0,
              sent |-> IF res.status = 0 THEN <<>> ELSE <<res>>]
  /\ UNCHANGED <<sessions, now, config, linked, putb, evicted, raced, solo, server>>

\* The exchange call of a suspended invocation settles and the handler runs
\* to its end (everything but the authorization server's own state).
ResumeBody(p, o) ==
  LET q == inflight[p].v
      r == callbackAfterExchange(sessions, q.state, o) IN
  /\ phase = "running"
  /\ inflight[p].present
  /\ sessions' = r.store
  /\ inflight' = [inflight EXCEPT ![p] = Null]
  /\ last' = [op |-> "callbackDone", proc |-> p, query |-> q, outcome |-> o,
              res |-> r.res, exchanged |-> TRUE, writes |-> r.writes,
              raced |-> raced[p]]
  /\ IF r.writes > 0
       THEN NoteSet(q.state, r.store[q.state].v)
       ELSE UNCHANGED <<linked, putb, evicted>>
  /\ UNCHANGED <<now, config>>

\* The exchange may do anything.
CallbackResume(p, o) ==
  /\ ResumeBody(p, o)
  /\ UNCHANGED <<raced, solo, server>>

\* The same step, with the history of racing callbacks kept: every other
\* invocation suspended for the same state is told the bundle just written.
CallbackResumeRaced(p, o) ==
  LET q == inflight[p].v
      r == callbackAfterExchange(sessions, q.state, o) IN
  /\ inflight[p].present
  /\ ResumeBody(p, o)
  /\ raced' = [x \in Procs |->
                 IF x = p THEN Null
                 ELSE IF r.writes > 0 /\ inflight[x].present
                         /\ inflight[x].v.state = q.state
                   THEN r.store[q.state]
                   ELSE raced[x]]
  /\ UNCHANGED <<solo, server>>

\* The authorization server issues a code to a user who completed the
\* authorization.  A code value that is issued again stands for a new code.
IssueCode(c) ==
  /\ phase = "running"
  /\ c \notin valid
  /\ \A p \in Procs : inflight[p].present => inflight[p].v.code # c
  /\ valid' = valid \cup {c}
  /\ codeWrites' = [codeWrites EXCEPT ![c] = 0]
  /\ last' = [op |-> "issue", code |-> c]
  /\ UNCHANGED <<sessions, now, inflight, config, linked, putb, evicted, raced, solo>>

\* The exchange against an authorization server whose codes are single-use:
\* it returns a session (or a data without session) only for an issued code
\* that was not exchanged before, and that exchange consumes the code.
CallbackResumeSingleUse(p, o) ==
  LET code == inflight[p].v.code
      r == callbackAfterExchange(sessions, inflight[p].v.state, o) IN
  /\ inflight[p].present
  /\ o.kind \in {"session", "nosession"} => code \in valid
  /\ ResumeBody(p, o)
  /\ UNCHANGED <<raced, solo>>
  /\ valid' = IF o.kind \in {"session", "nosession"} THEN valid \ {code} ELSE valid
  /\ codeWrites' = [codeWrites EXCEPT ![code] = @ + r.writes]

\* The same step as CallbackResume, with the history of the run in which the
\* callbacks for this state are the only ones.
CallbackResumeSolo(p, o) ==
  LET i == inflight[p].v.state IN
  /\ inflight[p].present
  /\ ResumeBody(p, o)
  /\ solo' = [solo EXCEPT ![i] = callbackAfterExchange(solo[i], i, o).store]
  /\ UNCHANGED <<raced, server>>

\* The exchange call of a suspended invocation settles and the handler runs
\* to its end, with the exceptions that can be raised on the way.
CallbackResumeFaulty(p, o, f) ==
  LET q == inflight[p].v
      r == callbackTry(sessions, q.state, o, f) IN
  /\ phase = "running"
  /\ inflight[p].present
  /\ sessions' = r.store
  /\ inflight' = [inflight EXCEPT ![p] = Null]
  /\ last' = [op |-> "callbackDone", proc |-> p, query |-> q, outcome |-> o,
              fault |-> f, sent |-> r.sent, raised |-> r.raised,
              thrown |-> r.thrown, exchanged |-> TRUE, writes |-> r.writes,
              had |-> sessions[q.state]]
  /\ IF r.writes > 0
       THEN NoteSet(q.state, r.store[q.state].v)
       ELSE UNCHANGED <<linked, putb, evicted>>
  /\ UNCHANGED <<now, config, raced, solo, server>>

\* A list command runs to its end.
ListCommand ==
  /\ phase = "running"
  /\ last.op = "request" /\ last.command = "list"
  /\ LET r == listCommand(last.kind, last.defer, last.user, last.fetch) IN
     last' = [op |-> "list", kind |-> last.kind, defer |-> last.defer,
              user |-> last.user, fetch |-> last.fetch, deferred |-> r.deferred,
              edits |-> r.edits, thrown |-> r.thrown]
  /\ UNCHANGED <<sessions, now, inflight, config, linked, putb, evicted, raced, solo, server>>

\* getUserGames runs to its end, in the version asked for.
GetUserGames ==
  /\ phase = "running"
  /\ last.op = "request" /\ last.command = "getUserGames"
  /\ LET r == IF last.version = 1 THEN getUserGames_first(last.db, last.failAt)
                                  ELSE getUserGames(last.db, last.failAt) IN
     last' = [op |-> "getUserGames", version |-> last.version, db |-> last.db,
              failAt |-> last.failAt, ret |-> r]
  /\ UNCHANGED <<sessions, now, inflight, config, linked, putb, evicted, raced, solo, server>>

FormatListWithCounts ==
  /\ phase = "running"
  /\ last.op = "request" /\ last.command = "formatListWithCounts"
  /\ last' = [op |-> "formatListWithCounts", items |-> last.items,
              schemaType |-> last.schemaType,
              ret |-> formatListWithCounts(last.items, last.schemaType)]
  /\ UNCHANGED <<sessions, now, inflight, config, linked, putb, evicted, raced, solo, server>>

Next ==
  \/ Startup
  \/ Tick
  \/ \E i \in Identities, b \in SessionData : SetSession(i, b)
  \/ \E i \in Identities : GetSession(i)
  \/ \E i \in Identities : DeleteSession(i)
  \/ \E i \in Identities : GetSupabaseForUser(i)
  \/ \E p \in Procs, q \in Queries : CallbackReceive(p, q)
  \/ \E p \in Procs, o \in ExchangeOutcomes : CallbackResume(p, o)

Spec == Init /\ [][Next]_vars

\* The callbacks against an authorization server with single-use codes.
NextSingleUse ==
  \/ Startup
  \/ Tick
  \/ \E c \in Codes : IssueCode(c)
  \/ \E i \in Identities : GetSession(i)
  \/ \E p \in Procs, q \in Queries : CallbackReceive(p, q)
  \/ \E p \in Procs, o \in ExchangeOutcomes : CallbackResumeSingleUse(p, o)

SpecSingleUse == Init /\ [][NextSingleUse]_vars

\* Callbacks racing each other, with the history of the races.
NextRace ==
  \/ Startup
  \/ Tick
  \/ \E i \in Identities : GetSession(i)
  \/ \E i \in Identities : DeleteSession(i)
  \/ \E p \in Procs, q \in Queries : CallbackReceive(p, q)
  \/ \E p \in Procs, o \in ExchangeOutcomes : CallbackResumeRaced(p, o)

SpecRace == Init /\ [][NextRace]_vars

\* The login command and the callbacks of a process started with any
\* configuration.
NextConfig ==
  \/ Startup
  \/ Tick
  \/ \E i \in Identities, o \in SignInOutcomes : LoginCommand(i, o)
  \/ \E p \in Procs, q \in Queries : CallbackReceive(p, q)
  \/ \E p \in Procs, o \in ExchangeOutcomes : CallbackResume(p, o)

SpecConfig == InitAnyEnv /\ [][NextConfig]_vars

\* The callbacks alone, each compared with the run of its own identity.
NextSolo ==
  \/ Startup
  \/ Tick
  \/ \E p \in Procs, q \in Queries : CallbackReceive(p, q)
  \/ \E p \in Procs, o \in ExchangeOutcomes : CallbackResumeSolo(p, o)

SpecSolo == Init /\ [][NextSolo]_vars

\* The program as it is wired: the callback is the only caller of setSession
\* and the client factory the only caller of getSession.
NextLink ==
  \/ Startup
  \/ Tick
  \/ \E i \in Identities : GetSupabaseForUser(i)
  \/ \E p \in Procs, q \in Queries : CallbackReceive(p, q)
  \/ \E p \in Procs, o \in ExchangeOutcomes : CallbackResume(p, o)

SpecLink == Init /\ [][NextLink]_vars

\* The callbacks on requests whose state is any string.
NextAnyState ==
  \/ Startup
  \/ \E p \in Procs, q \in RawQueries : CallbackReceive(p, q)
  \/ \E p \in Procs, o \in ExchangeOutcomes : CallbackResume(p, o)

SpecAnyState == InitAnyState /\ [][NextAnyState]_vars

\* The callbacks with the exceptions of the try block.
NextFaults ==
  \/ Startup
  \/ Tick
  \/ \E p \in Procs, q \in Queries : CallbackReceive(p, q)
  \/ \E p \in Procs, o \in ExchangeOutcomes, f \in Faults : CallbackResumeFaulty(p, o, f)

SpecFaults == Init /\ [][NextFaults]_vars

\* The commands and helpers that keep no state, each on every request.
SpecList == InitCommands(ListRequests) /\ [][ListCommand]_vars

SpecGames == InitCommands(GamesRequests) /\ [][GetUserGames]_vars

SpecFormat == InitCommands(FormatRequests) /\ [][FormatListWithCounts]_vars

---------------------------------------------------------------------------
\* Properties of the session store and of the client factory.

\* C1: getSupabaseForUser(i) returns null for every identity i that
\* setSession was never called for, whatever happened to other identities.
C1_NeverLinkedAbsent ==
  (last.op = "getSupabaseForUser" /\ last.id \notin linked) => last.ret = Null

\* The factory was asked for a never-linked identity while another identity
\* holds a session.
C1_Witness ==
  /\ last.op = "getSupabaseForUser"
  /\ last.id \notin linked
  /\ \E j \in Identities : j # last.id /\ sessions[j].present

\* C2: with b the bundle last given to setSession(i, .) and not deleted since,
\* getSession(i) returns exactly b while Date.now() is before b.expiresAt and
\* null once Date.now() is strictly after it.
C2_GetReturnsPutUntilExpiry ==
  (last.op = "getSession" /\ putb[last.id].present
     /\ putb[last.id].v.expiresAt # NaN) =>
    LET b == putb[last.id].v IN
    /\ now < b.expiresAt => last.ret = Some(b)
    /\ now > b.expiresAt => last.ret = Null

\* getSession returned the stored bundle at a later instant than the start,
\* still before its expiry.
C2_Witness ==
  /\ last.op = "getSession"
  /\ putb[last.id].present
  /\ putb[last.id].v.expiresAt # NaN
  /\ now > 0
  /\ now < putb[last.id].v.expiresAt
  /\ last.ret = putb[last.id]

\* C3: once getSession(i) has found the bundle expired, every later
\* getSession(i) returns null until setSession(i, .) is called again.
C3_EvictionPermanent ==
  (last.op = "getSession" /\ last.wasEvicted) => last.ret = Null

\* A second getSession on an identity whose bundle was evicted before.
C3_Witness ==
  /\ last.op = "getSession"
  /\ last.wasEvicted
  /\ putb[last.id].present

\* C4: getSession(i) on an entry whose expiry is in the past returns null and
\* removes the entry.
C4_ExpiredReadEvicts ==
  (last.op = "getSession" /\ last.had.present
     /\ Gt(now, last.had.v.expiresAt)) =>
    (last.ret = Null /\ ~sessions[last.id].present)

\* getSession ran one millisecond after the expiry of the stored bundle.
C4_Witness ==
  /\ last.op = "getSession"
  /\ last.had.present
  /\ last.had.v.expiresAt # NaN
  /\ now = last.had.v.expiresAt + 1

\* C5: setSession overwrites: after setSession(i, b2) the entry of i is exactly
\* b2 whatever it held before, and a getSession(i) that follows at once, with
\* b2 unexpired, returns b2 and leaves b2 in the store.
C5_LastWriteWins ==
  [][ /\ last'.op = "setSession" => sessions'[last'.id] = Some(last'.arg)
      /\ (last.op = "setSession" /\ last.had.present
            /\ last'.op = "getSession" /\ last'.id = last.id
            /\ ~Gt(now, last.arg.expiresAt)) =>
           (last'.ret = Some(last.arg) /\ sessions'[last.id] = Some(last.arg))
    ]_vars

\* setSession replaced an unexpired bundle by a different unexpired one.
C5_Witness ==
  /\ last.op = "setSession"
  /\ last.had.present
  /\ last.had.v # last.arg
  /\ last.had.v.accessToken # last.arg.accessToken
  /\ ~Gt(now, last.had.v.expiresAt)
  /\ ~Gt(now, last.arg.expiresAt)

---------------------------------------------------------------------------
\* Properties of the callback handler.

\* C6: a callback whose query carries an error answers 400 with the error
\* text in the body, does not call the exchange and leaves the store as it
\* is, whatever code and state are.
C6_OAuthErrorRejected ==
  [][ /\ (last'.op = "callback" /\ last'.query.error # "") =>
           /\ last'.res.status = 400
           /\ last'.res.detail = last'.query.error
           /\ ~last'.exchanged
           /\ ~inflight'[last'.proc].present
           /\ sessions' = sessions
      /\ \A p \in Procs : inflight'[p].present => inflight'[p].v.error = ""
    ]_vars

\* A callback with an error and with code and state present was answered
\* while the store held a session.
C6_Witness ==
  /\ last.op = "callback"
  /\ last.query.error # ""
  /\ last.query.code # ""
  /\ last.query.state # ""
  /\ sessions[last.query.state].present

\* C7: with no error, a missing code answers 400 "Missing authorization code"
\* (also when the state is missing), a present code with a missing state
\* answers 400 "Missing state parameter"; neither calls the exchange nor
\* changes the store.
C7_ValidationOrder ==
  [][ /\ (last'.op = "callback" /\ last'.query.error = ""
            /\ last'.query.code = "") =>
           /\ last'.res = Response(400, "Missing authorization code", "")
           /\ ~last'.exchanged
           /\ ~inflight'[last'.proc].present
           /\ sessions' = sessions
      /\ (last'.op = "callback" /\ last'.query.error = ""
            /\ last'.query.code # "" /\ last'.query.state = "") =>
           /\ last'.res =
                Response(400, "Missing state parameter (Discord user ID)", "")
           /\ ~last'.exchanged
           /\ ~inflight'[last'.proc].present
           /\ sessions' = sessions
      /\ \A p \in Procs : inflight'[p].present =>
           (inflight'[p].v.code # "" /\ inflight'[p].v.state # "")
    ]_vars

\* A callback with neither error, code nor state was answered.
C7_Witness ==
  /\ last.op = "callback"
  /\ last.query = [code |-> "", state |-> "", error |-> ""]
  /\ \E i \in Identities : sessions[i].present

\* C8: when the exchange of a callback resolves with a session, the store
\* then holds under the state value an entry with the session's access token,
\* refresh token and the subject id, and the response is the 302 redirect.
C8_SuccessStoresBundle ==
  (last.op = "callbackDone" /\ last.outcome.kind = "session") =>
    LET e == sessions[last.query.state]
        s == last.outcome.session IN
    /\ e.present
    /\ e.v.accessToken = s.access_token
    /\ e.v.refreshToken = s.refresh_token
    /\ e.v.userId = s.user_id
    /\ last.res.status = 302

\* A callback's exchange resolved with a session.
C8_Witness ==
  /\ last.op = "callbackDone"
  /\ last.outcome.kind = "session"
  /\ last.res.status = 302
  /\ sessions[last.query.state].present

C11_NoSessionRejected ==
  [][ (last'.op = "callbackDone" /\ last'.outcome.kind = "nosession") =>
        /\ last'.res =
             Response(400, "No session returned from authentication", "")
        /\ last'.writes = 0
        /\ sessions' = sessions
    ]_vars

\* The exchange of a callback resolved without error and without session
\* while the store held a session for the state value.
C11_Witness ==
  /\ last.op = "callbackDone"
  /\ last.outcome.kind = "nosession"
  /\ sessions[last.query.state].present

\* C13: deleteSession(i) removes the entry of i and no other entry, also when
\* i has no entry (the store is then unchanged), and a getSession(i) that
\* follows returns null.
C13_DeleteUnconditional ==
  [][ /\ last'.op = "deleteSession" =>
           /\ ~sessions'[last'.id].present
           /\ \A j \in Identities :
                j # last'.id => sessions'[j] = sessions[j]
           /\ ~last'.had.present => sessions' = sessions
      /\ (last.op = "deleteSession" /\ last'.op = "getSession"
            /\ last'.id = last.id) => last'.ret = Null
    ]_vars

\* deleteSession removed an entry while another identity held one.
C13_Witness ==
  /\ last.op = "deleteSession"
  /\ last.had.present
  /\ \E j \in Identities : j # last.id /\ sessions[j].present

\* C14: a client returned by getSupabaseForUser(i) carries as bearer the
\* access token of the bundle last given to setSession for i, and the
\* invocation built it with one createClient call of its own.
C14_ClientCarriesCurrentToken ==
  (last.op = "getSupabaseForUser" /\ last.ret.present) =>
    /\ putb[last.id].present
    /\ last.ret.v.authorization = <<"Bearer", putb[last.id].v.accessToken>>
    /\ last.created = 1

\* A client was built, after time had passed, for an identity while another
\* identity held a bundle with a different access token.
C14_Witness ==
  /\ last.op = "getSupabaseForUser"
  /\ last.ret.present
  /\ now > 0
  /\ \E j \in Identities : j # last.id /\ sessions[j].present
       /\ sessions[j].v.accessToken # putb[last.id].v.accessToken

\* C19: the passage of time leaves the store as it is; getSession(i) on an
\* entry that is not expired changes nothing, and getSession(i) never changes
\* the entry of another identity; the entry of i changes only in a store call
\* or a callback write for i.
C19_LazyExpiry ==
  [][ /\ last'.op = "tick" => sessions' = sessions
      /\ last'.op = "getSession" =>
           /\ \A j \in Identities :
                j # last'.id => sessions'[j] = sessions[j]
           /\ (last'.had.present /\ ~Gt(now, last'.had.v.expiresAt)) =>
                sessions' = sessions
      /\ \A i \in Identities :
           sessions'[i] # sessions[i] =>
             \/ (last'.op \in {"getSession", "getSupabaseForUser",
                               "setSession", "deleteSession"} /\ last'.id = i)
             \/ (last'.op = "callbackDone" /\ last'.query.state = i)
    ]_vars

\* An entry sits expired in the store after time has passed.
C19_Witness ==
  /\ last.op = "tick"
  /\ \E i \in Identities :
       sessions[i].present /\ Gt(now, sessions[i].v.expiresAt)

\* C12: against an authorization server with single-use codes, a callback
\* that replays a code already exchanged answers no 302 and writes nothing
\* (400 when the server's rejection is returned as an error), and no code
\* leads to more than one store write.
C12_ReplayNeverWrites ==
  [][ /\ \A c \in Codes : codeWrites'[c] <= 1
      /\ (last'.op = "callbackDone" /\ last'.query.code \notin valid) =>
           /\ last'.res.status # 302
           /\ last'.writes = 0
           /\ sessions' = sessions
           /\ last'.outcome.kind = "error" => last'.res.status = 400
    ]_vars

\* A callback replayed a code after another callback had written the store
\* for it, and was answered 400.
C12_Witness ==
  /\ last.op = "callbackDone"
  /\ last.query.code \notin valid
  /\ codeWrites[last.query.code] = 1
  /\ last.outcome.kind = "error"
  /\ last.res.status = 400

\* C15 as claimed: when signInWithOAuth fails in any way (error, no URL, or a
\* thrown transport error) the user gets the generic failure reply and no
\* exception leaves the handler.
C15_Original ==
  (last.op = "login" /\ last.outcome.kind \in {"error", "nourl", "throw"}) =>
    (last.reply = "Login Error" /\ ~last.thrown)

\* C16 as claimed: the process serves only when every required configuration
\* value is present.
C16_Original ==
  phase = "running" => env = EnvNames

\* C17 as claimed: the expiry stored by the callback is the time of the write
\* plus expires_in seconds times 1000 (for a session the provider issued at
\* the instant of the write, the best case for the claim).
C17_Original ==
  (last.op = "callbackDone" /\ last.writes = 1
     /\ last.outcome.session.expires_at # Undefined
     /\ ExpiresIn(last.outcome.session, now) > 0) =>
    sessions[last.query.state].v.expiresAt =
      now + ExpiresIn(last.outcome.session, now) * MsPerSec

\* C17 amended: the stored expiry is the provider's expires_at times 1000,
\* whatever the time of the write (NaN when expires_at is missing); it is the
\* time of the write plus expires_in * 1000, less the milliseconds the write
\* is past the whole second.
C17_ExpiryIsExpiresAtMillis ==
  (last.op = "callbackDone" /\ last.writes = 1) =>
    LET s == last.outcome.session
        e == sessions[last.query.state].v.expiresAt IN
    IF s.expires_at = Undefined
      THEN e = NaN
      ELSE /\ e = s.expires_at * MsPerSec
           /\ e = now + ExpiresIn(s, now) * MsPerSec - (now % MsPerSec)

\* A callback wrote a bundle at an instant that is not a whole second.
C17_Witness ==
  /\ last.op = "callbackDone"
  /\ last.writes = 1
  /\ last.outcome.session.expires_at # Undefined
  /\ now % MsPerSec # 0
  /\ ExpiresIn(last.outcome.session, now) > 0

\* C18 as claimed: every bundle the callback writes has, at the write, an
\* expiry strictly in the future.
C18_Original ==
  (last.op = "callbackDone" /\ last.writes = 1) =>
    Gt(sessions[last.query.state].v.expiresAt, now)

\* C20: when a callback writes after another callback for the same state has
\* written while it was suspended, the entry is the bundle of the later write
\* in all four fields; every entry is at all times a whole bundle of one
\* session.
C20_RaceLastWriteWins ==
  /\ (last.op = "callbackDone" /\ last.outcome.kind = "session") =>
       sessions[last.query.state] = Some(BundleOf(last.outcome.session))
  /\ \A i \in Identities : sessions[i].present => sessions[i].v \in SessionData

\* A callback wrote its bundle over the different bundle that a racing
\* callback for the same state had written while it was suspended.
C20_Witness ==
  /\ last.op = "callbackDone"
  /\ last.outcome.kind = "session"
  /\ last.raced.present
  /\ last.raced.v.accessToken # last.outcome.session.access_token
  /\ sessions[last.query.state] = Some(BundleOf(last.outcome.session))

\* C21: a callback with state i leaves the entry of every other identity as
\* it is, whether it answers at once or after its exchange, and under every
\* interleaving the entry of each identity is the entry of the run in which
\* only the callbacks for that identity take place.
C21_CallbacksDoNotInterfere ==
  [][ /\ (last'.op \in {"callback", "callbackDone"}) =>
           \A j \in Identities :
             j # last'.query.state => sessions'[j] = sessions[j]
      /\ \A i \in Identities : sessions'[i] = solo'[i][i]
    ]_vars

\* A callback wrote the entry of its identity while a callback for the other
\* identity was suspended at its exchange and that identity held a different
\* bundle.
C21_Witness ==
  /\ last.op = "callbackDone"
  /\ last.writes = 1
  /\ \E p \in Procs :
       /\ inflight[p].present
       /\ inflight[p].v.state # last.query.state
       /\ sessions[inflight[p].v.state].present
       /\ sessions[inflight[p].v.state] # sessions[last.query.state]

\* C22: getSupabaseForUser(i) never writes a bundle and never changes an
\* expiry: it leaves every entry as it is or removes the entry of i.  It
\* returns a client only for a bundle that a callback stored and that is not
\* expired, built from the access token alone, and null for an expired one;
\* the bundle on record for an identity changes only in a callback for that
\* identity that ends in the 302.
C22_NoRefresh ==
  [][ /\ last'.op = "getSupabaseForUser" =>
           LET i == last'.id IN
           /\ \A j \in Identities :
                sessions'[j] = sessions[j] \/ (j = i /\ sessions'[j] = Null)
           /\ last'.ret.present =>
                /\ sessions[i].present
                /\ sessions[i] = putb[i]
                /\ ~Gt(now, sessions[i].v.expiresAt)
                /\ last'.ret.v = createUserClient(sessions[i].v.accessToken)
           /\ (sessions[i].present /\ Gt(now, sessions[i].v.expiresAt)) =>
                last'.ret = Null
      /\ \A i \in Identities :
           putb'[i] # putb[i] =>
             /\ last'.op = "callbackDone"
             /\ last'.query.state = i
             /\ last'.res.status = 302
    ]_vars

\* The factory was asked for an identity whose bundle, refresh token
\* included, had expired, and returned null.
C22_Witness ==
  /\ last.op = "getSupabaseForUser"
  /\ last.had.present
  /\ last.had.v.refreshToken \in {g.refresh_token : g \in Grants}
  /\ Gt(now, last.had.v.expiresAt)
  /\ last.ret = Null
  /\ ~sessions[last.id].present

\* C23 as claimed: the state of a callback is checked against the shape of
\* an identity before it is used, so every key of the store has that shape.
C23_Original ==
  \A k \in DOMAIN sessions : sessions[k].present => k \in IdentityShaped

\* C24: every 302 a callback answers is the redirect to the one address
\* https://salvageunion.io/auth/success with nothing added to it, whatever the
\* code, the state and the session of the exchange are; every exchange that
\* returns a session is answered with it.
C24_FixedRedirect ==
  /\ (last.op \in {"callback", "callbackDone"} /\ last.res.status = 302) =>
       last.res = Response(302, "https://salvageunion.io/auth/success", "")
  /\ (last.op = "callbackDone" /\ last.outcome.kind = "session") =>
       last.res = Response(302, "https://salvageunion.io/auth/success", "")

\* A callback was redirected after an exchange that returned one token pair,
\* while the other identity holds the other token pair from its own
\* successful callback.
C24_Witness ==
  /\ last.op = "callbackDone"
  /\ last.res.status = 302
  /\ \E j \in Identities :
       /\ j # last.query.state
       /\ putb[j].present
       /\ putb[j].v.accessToken # last.outcome.session.access_token

\* C25: an exception raised in the handler after the validation of the
\* parameters (a rejected exchange, an exception while the bundle is built,
\* an exception raised by a response call of the try block) is caught: the
\* handler answers 500 with the text "Internal server error" and no exception
\* leaves it.
C25_ExceptionsCaught ==
  last.op = "callbackDone" =>
    /\ ~last.thrown
    /\ last.raised =>
         last.sent[Len(last.sent)] = Response(500, "Internal server error", "")
    /\ last.raised <=>
         \/ last.outcome.kind = "throw"
         \/ last.fault = "respond"
         \/ (last.fault = "bundle" /\ last.outcome.kind = "session")

\* The exchange returned a session and an exception was raised while the
\* bundle was built; the identity keeps the session it had.
C25_Witness ==
  /\ last.op = "callbackDone"
  /\ last.outcome.kind = "session"
  /\ last.fault = "bundle"
  /\ last.raised
  /\ last.had.present
  /\ sessions[last.query.state] = last.had

\* C26: a handler segment that ends the invocation has sent exactly one
\* response, a 400, the 302 or the 500, also when an exception was raised
\* after the store write by the redirect; a segment that suspends at the
\* exchange has sent none, and no exception leaves the handler.
C26_OneResponse ==
  /\ last.op = "callback" =>
       /\ Len(last.sent) = (IF last.exchanged THEN 0 ELSE 1)
       /\ \A k \in 1..Len(last.sent) : last.sent[k].status = 400
  /\ last.op = "callbackDone" =>
       /\ Len(last.sent) = 1
       /\ last.sent[1].status \in {400, 302, 500}
       /\ ~last.thrown

\* The redirect raised an exception after the store write: the entry is
\* written and the one response is the 500.
C26_Witness ==
  /\ last.op = "callbackDone"
  /\ last.outcome.kind = "session"
  /\ last.fault = "respond"
  /\ last.writes = 1
  /\ sessions[last.query.state] = Some(BundleOf(last.outcome.session))
  /\ last.sent = <<Response(500, "Internal server error", "")>>

---------------------------------------------------------------------------
\* Properties of the commands.

\* C27: no reply of a list command carries more than 10 embeds.  For N
\* fetched records the reply carries min(N, 10) embeds, the k-th for the k-th
\* record with that record's own description; exactly when N > 10 the
\* description of the last embed ends with the note "Showing 10 of N", put
\* after the description the embed had.
C27_AtMostTenEmbeds ==
  last.op = "list" =>
    /\ \A e \in 1..Len(last.edits) : Len(last.edits[e].embeds) <= 10
    /\ (last.deferred /\ last.user = "found" /\ last.fetch.kind = "rows") =>
         LET rows == last.fetch.rows
             N == Len(rows)
             shown == IF N < 10 THEN N ELSE 10
             embeds == last.edits[1].embeds
             own(k) == IF last.kind = "pilots" /\ rows[k].motto # ""
                         THEN <<Piece(rows[k].motto)>> ELSE <<>> IN
         /\ Len(last.edits) = 1
         /\ Len(embeds) = shown
         /\ \A k \in 1..shown :
              /\ embeds[k].url = <<last.kind, rows[k].id>>
              /\ (k < shown \/ N <= 10) => embeds[k].description = own(k)
         /\ N > 10 =>
              LET d == embeds[shown].description IN
              /\ Len(d) > 0
              /\ d[Len(d)] = Note(last.kind, N)
              /\ Len(d) > Len(own(shown))
              /\ SubSeq(d, 1, Len(own(shown))) = own(shown)

\* Eleven pilots were fetched and the tenth has a motto: the tenth embed
\* keeps the motto and ends with the note.
C27_Witness ==
  /\ last.op = "list"
  /\ last.kind = "pilots"
  /\ last.deferred
  /\ last.user = "found"
  /\ last.fetch.kind = "rows"
  /\ Len(last.fetch.rows) = 11
  /\ last.fetch.rows[10].motto # ""
  /\ Len(last.edits[1].embeds) = 10
  /\ Len(last.edits[1].embeds[10].description) = 3

\* C28: a list command calls editReply only after its deferReply has
\* succeeded.  When deferReply fails with code 10062 or 40060 the handler
\* ends without an editReply and without an exception; when it fails with
\* another error the error leaves the handler and no editReply is made.
C28_EditOnlyAfterDefer ==
  last.op = "list" =>
    /\ Len(last.edits) > 0 => (last.deferred /\ last.defer.kind = "ok")
    /\ last.defer.kind = "ok" => (last.deferred /\ ~last.thrown)
    /\ (last.defer.kind = "error" /\ last.defer.code \in {10062, 40060}) =>
         (last.edits = <<>> /\ ~last.thrown)
    /\ (last.defer.kind = "error" /\ last.defer.code \notin {10062, 40060}) =>
         (last.edits = <<>> /\ last.thrown)

\* deferReply failed with code 40060 in a command whose user exists and
\* whose fetch would have returned records.
C28_Witness ==
  /\ last.op = "list"
  /\ last.defer.kind = "error"
  /\ last.defer.code = 40060
  /\ last.user = "found"
  /\ last.fetch.kind = "rows"
  /\ Len(last.fetch.rows) > 0
  /\ last.edits = <<>>
  /\ ~last.thrown

\* C29: getUserGames, in both versions, throws when the created-games query
\* or the membership query fails, and otherwise, when it returns, returns each
\* game at most once and exactly the existing games that the user created or
\* has a membership row for.
C29_GamesOnceAndAll ==
  last.op = "getUserGames" =>
    LET db == last.db
        r == last.ret
        memberIds == { db.memberRows[k] : k \in 1..Len(db.memberRows) }
        expected == (db.created \cup memberIds) \cap db.games IN
    /\ last.failAt \in {"created", "member"} => (r.thrown /\ r.games = <<>>)
    /\ last.failAt \in {"none", "counts"} => ~r.thrown
    /\ ~r.thrown =>
         /\ \A a, b \in 1..Len(r.games) : a # b => r.games[a].id # r.games[b].id
         /\ { r.games[k].id : k \in 1..Len(r.games) } = expected

\* The first version returned two or more games for a user who created a
\* game and is also a member of it.
C29_Witness ==
  /\ last.op = "getUserGames"
  /\ last.version = 1
  /\ ~last.ret.thrown
  /\ Len(last.ret.games) >= 2
  /\ \E k \in 1..Len(last.db.memberRows) : last.db.memberRows[k] \in last.db.created

\* The N of a line: the number of items it stands for.
RECURSIVE SumOfCounts(_)
SumOfCounts(lines) ==
  IF lines = <<>> THEN 0
  ELSE (IF Head(lines).times = 0 THEN 1 ELSE Head(lines).times)
         + SumOfCounts(Tail(lines))

\* C30: formatListWithCounts returns one line per distinct name, in the order
\* in which the names first occur, linked to the id of the first occurrence;
\* a line has the suffix " xN" exactly when its name occurs N > 1 times, and
\* the counts of the lines add up to the length of the list.
C30_OneLinePerName ==
  last.op = "formatListWithCounts" =>
    LET items == last.items
        out == last.ret
        firsts == { k \in 1..Len(items) :
                      \A j \in 1..(k - 1) : items[j].name # items[k].name }
        rank(k) == Cardinality({ j \in firsts : j <= k }) IN
    /\ Len(out) = Cardinality(firsts)
    /\ \A k \in firsts :
         /\ out[rank(k)].name = items[k].name
         /\ out[rank(k)].url = <<last.schemaType, items[k].id>>
         /\ out[rank(k)].times =
              (IF countOf(items, items[k].name) > 1
                 THEN countOf(items, items[k].name) ELSE 0)
    /\ SumOfCounts(out) = Len(items)

\* A list in which a name comes back, with another id, after a different
\* name.
C30_Witness ==
  /\ last.op = "formatListWithCounts"
  /\ Len(last.items) >= 3
  /\ last.items[1].name = last.items[3].name
  /\ last.items[1].id # last.items[3].id
  /\ last.items[2].name # last.items[1].name
  /\ Len(last.ret) = 2
  /\ last.ret[1].times = 2

====
